---------------------------- MODULE Spec2Model ----------------------------
(***************************************************************************)
(* A model of notify.py: the notify decorator class that reports the     *)
(* outcome of a decorated function to Slack.                               *)
(*                                                                         *)
(* Strings whose characters matter (mention strings, the rendered          *)
(* duration) are sequences of one-character strings.  Times are integers   *)
(* in microseconds, the resolution of datetime.timedelta.                  *)
(***************************************************************************)
EXTENDS Integers, Sequences, FiniteSets, TLC

(***************************************************************************)
(* Bounds of the model.                                                    *)
(***************************************************************************)
MaxMentionLen == 2      \* length of the generated mention strings
MaxMentions == 2        \* length of a mention list given to the constructor
MaxDepth == 2           \* nesting depth of decorated calls on one thread
MaxTime == 1500000      \* the clock stops advancing here (microseconds)
MaxCalls == 2           \* calls each thread makes in the threaded model

(***************************************************************************)
(* Small helpers on sequences.                                             *)
(***************************************************************************)
IsPrefix(p, s) == Len(p) <= Len(s) /\ SubSeq(s, 1, Len(p)) = p

RECURSIVE Join(_, _)
\* sep.join(parts), parts a sequence of character sequences
Join(sep, parts) ==
    IF parts = <<>> THEN <<>>
    ELSE IF Len(parts) = 1 THEN parts[1]
    ELSE parts[1] \o sep \o Join(sep, Tail(parts))

(***************************************************************************)
(* _is_valid_mention: re.match(r'channel|here|U[0-9A-Z]+', s).             *)
(* re.match anchors the pattern at the start of s only: it succeeds when   *)
(* some alternative matches a prefix of s.                                 *)
(***************************************************************************)
ChannelStr == <<"c", "h", "a", "n", "n", "e", "l">>
HereStr == <<"h", "e", "r", "e">>
UpperAlnum ==
    {"0", "1", "2", "3", "4", "5", "6", "7", "8", "9",
     "A", "B", "C", "D", "E", "F", "G", "H", "I", "J", "K", "L", "M",
     "N", "O", "P", "Q", "R", "S", "T", "U", "V", "W", "X", "Y", "Z"}

_is_valid_mention(s) ==
    \/ IsPrefix(ChannelStr, s)
    \/ IsPrefix(HereStr, s)
    \/ (Len(s) >= 2 /\ s[1] = "U" /\ s[2] \in UpperAlnum)

(***************************************************************************)
(* str(timedelta) and the slice [:-3] of line 148.                         *)
(***************************************************************************)
DigitChar(d) ==
    CASE d = 0 -> "0" [] d = 1 -> "1" [] d = 2 -> "2" [] d = 3 -> "3"
      [] d = 4 -> "4" [] d = 5 -> "5" [] d = 6 -> "6" [] d = 7 -> "7"
      [] d = 8 -> "8" [] d = 9 -> "9"

RECURSIVE Dec(_)
\* "%d" % n
Dec(n) == IF n < 0 THEN <<"-">> \o Dec(0 - n)
          ELSE IF n < 10 THEN <<DigitChar(n)>>
          ELSE Dec(n \div 10) \o <<DigitChar(n % 10)>>

RECURSIVE Pad(_, _)
\* "%0<w>d" % n for n >= 0
Pad(n, w) == IF w <= 1 THEN Dec(n)
             ELSE IF Len(Dec(n)) >= w THEN Dec(n)
             ELSE <<"0">> \o Pad(n, w - 1)

MicrosPerSecond == 1000000
SecondsPerDay == 86400

\* timedelta(seconds=x) for x = us microseconds: datetime keeps a duration
\* normalised as (days, seconds, microseconds), only days being negative
\* for a negative duration (\div and % round down, as divmod does)
Timedelta(us) ==
    [days |-> (us \div MicrosPerSecond) \div SecondsPerDay,
     seconds |-> (us \div MicrosPerSecond) % SecondsPerDay,
     microseconds |-> us % MicrosPerSecond]

\* str(td): "[D day[s], ]H:MM:SS[.ffffff]", the fraction only when it is
\* not zero
TimedeltaStr(td) ==
    LET hh == td.seconds \div 3600
        mm == (td.seconds \div 60) % 60
        ss == td.seconds % 60
        hms == Dec(hh) \o <<":">> \o Pad(mm, 2) \o <<":">> \o Pad(ss, 2)
        dayPart == IF td.days = 0 THEN <<>>
                   ELSE Dec(td.days) \o <<" ", "d", "a", "y">>
                        \o (IF td.days # 1 /\ td.days # -1 THEN <<"s">>
                            ELSE <<>>)
                        \o <<",", " ">>
        fraction == IF td.microseconds = 0 THEN <<>>
                    ELSE <<".">> \o Pad(td.microseconds, 6)
    IN  dayPart \o hms \o fraction

\* s[:-3]
DropLast3(s) == IF Len(s) <= 3 THEN <<>> ELSE SubSeq(s, 1, Len(s) - 3)

\* the text shown in the "Time elapsed" block for the duration td
\* (line 148: str(dt)[:-3])
TimeElapsedText(td) == DropLast3(TimedeltaStr(td))

(***************************************************************************)
(* State.                                                                  *)
(***************************************************************************)
VARIABLES
    \* the constructor call
    ctorArgs,       \* the arguments and the environment of notify(...)
    phase,          \* "new": not constructed; "ready"; "failed": __init__ raised
    ctorError,      \* the exception class __init__ raised, "None" if none
    \* the fields of the notify instance
    channel, mentions, token, error, t_start, t_end, func_name,
    \* one thread calling decorated functions, possibly nested
    now,            \* time.time(), in microseconds
    decorated,      \* the functions this instance has decorated
    stack,          \* the wrapper frames whose wrapped function is running
    last,           \* what the most recently finished decorated call did
    \* two measured durations and their rendering
    elapsedA, elapsedB, shownA, shownB, durPc,
    \* threads calling one decorated function of the instance
    th

ctorVars == <<ctorArgs, phase, ctorError>>
selfVars == <<channel, mentions, token, error, t_start, t_end, func_name>>
callVars == <<now, decorated, stack, last>>
durVars == <<elapsedA, elapsedB, shownA, shownB, durPc>>
vars == <<ctorVars, selfVars, callVars, durVars, th>>

\* Python's None in a field holding an exception, a string, a time
NoError == [cls |-> "None", msg |-> "None"]
NoTime == -1
NoName == "None"
Unset == "unset"

(***************************************************************************)
(* notify.__init__                                                         *)
(***************************************************************************)
Alphabet == {"U", "A", "1", "a"}
GeneratedStrings == UNION {[1..k -> Alphabet] : k \in 0..MaxMentionLen}
WordStrings ==
    {ChannelStr, HereStr,
     ChannelStr \o <<"X">>,                      \* channelX
     HereStr \o <<"b", "y">>,                    \* hereby
     <<"x">> \o HereStr,                         \* xhere
     <<"U", "1", "2", "a", "b">>,                \* U12ab
     <<"C", "h", "a", "n", "n", "e", "l">>}      \* Channel
MentionStrings == GeneratedStrings \cup WordStrings
MentionLists == UNION {[1..k -> MentionStrings] : k \in 0..MaxMentions}

CtorInputs ==
    [channel : {"#ops"},
     mtag : {"none"}, mstr : {<<>>}, mlist : {<<>>},
     token : {"None", "xoxb-arg"}, env : {Unset, "xoxb-env"}]
    \cup
    [channel : {"#ops"},
     mtag : {"str"}, mstr : MentionStrings, mlist : {<<>>},
     token : {"None", "xoxb-arg"}, env : {Unset, "xoxb-env"}]
    \cup
    [channel : {"#ops"},
     mtag : {"list"}, mstr : {<<>>}, mlist : MentionLists,
     token : {"None", "xoxb-arg"}, env : {Unset, "xoxb-env"}]

\* the configuration the calls are checked with
ReadyInputs ==
    {a \in CtorInputs :
        /\ a.token = "xoxb-arg" /\ a.env = Unset
        /\ a.mtag = "list" /\ a.mlist = <<ChannelStr, <<"U", "1">>>>}

\* lines 55-60
NormalizeMentions(a) ==
    CASE a.mtag = "none" -> <<>>
      [] a.mtag = "str" -> <<a.mstr>>
      [] a.mtag = "list" -> a.mlist

\* no instance exists yet
SelfUnset ==
    /\ channel = Unset /\ mentions = <<>> /\ token = Unset
    /\ error = NoError /\ t_start = NoTime /\ t_end = NoTime
    /\ func_name = NoName

CallIdle ==
    /\ now = 0 /\ decorated = {} /\ stack = <<>>

Construct ==
    /\ phase = "new"
    /\ channel' = ctorArgs.channel
    /\ mentions' = NormalizeMentions(ctorArgs)
    /\ IF \E i \in 1..Len(mentions') : ~_is_valid_mention(mentions'[i])
       THEN \* line 64: raise ValueError
            /\ phase' = "failed" /\ ctorError' = "ValueError"
            /\ UNCHANGED <<token, error, t_start, t_end, func_name>>
       ELSE IF ctorArgs.token = "None" /\ ctorArgs.env = Unset
       THEN \* line 71: os.environ['SLACK_API_TOKEN'] raises KeyError
            /\ phase' = "failed" /\ ctorError' = "KeyError"
            /\ UNCHANGED <<token, error, t_start, t_end, func_name>>
       ELSE /\ token' = IF ctorArgs.token = "None" THEN ctorArgs.env
                        ELSE ctorArgs.token
            /\ error' = NoError
            /\ t_start' = NoTime /\ t_end' = NoTime
            /\ func_name' = NoName
            /\ phase' = "ready" /\ ctorError' = "None"
    /\ UNCHANGED <<ctorArgs, callVars, durVars, th>>

(***************************************************************************)
(* notify._create_message                                                  *)
(***************************************************************************)
\* the rendering of one mention (lines 125-126)
MentionToken(s) ==
    IF s = ChannelStr \/ s = HereStr
    THEN <<"<", "!">> \o s \o <<">">>
    ELSE <<"<", "@">> \o s \o <<">">>

MentionPrefix(ments) ==
    Join(<<" ">>, [i \in 1..Len(ments) |-> MentionToken(ments[i])])

\* lines 127-128
StatusPhrase(err) ==
    IF err = NoError THEN "Execution succeeded!" ELSE "Execution failed!"

\* line 129; <bt> stands for the backquote character
SummaryText(ments, err, fname) ==
    <<MentionPrefix(ments), " *", StatusPhrase(err),
      "* (at function <bt>", fname, "<bt>)">>

\* what os.path.basename(sys.executable), sys.argv and os.uname() give
CommandName == "python train.py"
HostName == "host"

CommandBlock ==
    [type |-> "section", text |-> <<"*Command*<bt><bt><bt>", CommandName, "<bt><bt><bt>">>]
TimeElapsedBlock(ts, te) ==
    [type |-> "section",
     text |-> <<"*Time elapsed*\n", TimeElapsedText(Timedelta(te - ts))>>]
ErrorBlock(err) ==
    [type |-> "section",
     text |-> <<"*Error message*\n", "<bt><bt><bt>", err.cls, ": ", err.msg, "<bt><bt><bt>">>]
DividerBlock == [type |-> "divider", text |-> <<>>]
FooterBlock ==
    [type |-> "context", text |-> <<"Sent from *notify.py* at ", HostName>>]

Green == "#36a64f"
Red == "#cf0301"

\* Attachment with the error block put after the divider
AttachmentErrorAfterDivider(e153, e182, ts, te) ==
    IF e182 = NoError
    THEN [color |-> Green,
          blocks |-> <<CommandBlock, TimeElapsedBlock(ts, te),
                       DividerBlock, FooterBlock>>]
    ELSE [color |-> Red,
          blocks |-> <<CommandBlock, TimeElapsedBlock(ts, te),
                       DividerBlock, ErrorBlock(e153), FooterBlock>>]

\* lines 152-163 and 181-207: the attachment built from the blocks.
\* self.error is read at line 153 (e153: is error_msg built, and from which
\* exception) and again at line 182 (e182: which list of blocks is used)
Attachment(e153, e182, ts, te) ==
    IF e182 = NoError
    THEN [color |-> Green,
          blocks |-> <<CommandBlock, TimeElapsedBlock(ts, te),
                       DividerBlock, FooterBlock>>]
    ELSE [color |-> Red,
          blocks |-> <<CommandBlock, TimeElapsedBlock(ts, te),
                       ErrorBlock(e153), DividerBlock, FooterBlock>>]

\* line 203 names error_msg, which line 153 left unbound: UnboundLocalError
ErrorMsgUnbound(e153, e182) == e182 # NoError /\ e153 = NoError

\* _create_message from the values its reads of the fields gave: self.error
\* is read at lines 127, 153 and 182
BuildMessage(ch, ments, e127, fname, ts, te, e153, e182) ==
    [channel |-> ch,
     text |-> SummaryText(ments, e127, fname),
     color |-> Attachment(e153, e182, ts, te).color,
     blocks |-> Attachment(e153, e182, ts, te).blocks]

\* _create_message when one thread runs it: every read of a field gives
\* the same value
CreateMessage(ch, ments, err, ts, te, fname) ==
    BuildMessage(ch, ments, err, fname, ts, te, err, err)

NoMessage == [channel |-> "", text |-> <<>>, color |-> "", blocks |-> <<>>]

(***************************************************************************)
(* notify._send                                                            *)
(***************************************************************************)
NoStatus == -1
\* what building the message can do: os.uname is missing on some platforms
\* and str(self.error) runs the exception's own __str__
BuildOutcomes == {"built", "raises"}
\* what client.chat_postMessage can do: return a response, raise
\* SlackApiError, raise anything else (a connection error, a request error)
PostOutcomes == {"ok", "SlackApiError", "OtherError"}
BuildError == [cls |-> "AttributeError", msg |-> "os.uname"]
PostError == [cls |-> "ClientConnectorError", msg |-> "connection failed"]

\* [attempts: calls of chat_postMessage, status: the value _send returns,
\*  logged: logger.error was called, escaped: the exception _send raises]
Send(build, post) ==
    IF build = "raises"
    THEN [attempts |-> 0, status |-> NoStatus, logged |-> FALSE,
          escaped |-> BuildError]
    ELSE CASE post = "ok" ->
                [attempts |-> 1, status |-> 0, logged |-> FALSE,
                 escaped |-> NoError]
           [] post = "SlackApiError" ->
                [attempts |-> 1, status |-> 1, logged |-> TRUE,
                 escaped |-> NoError]
           [] post = "OtherError" ->
                [attempts |-> 1, status |-> NoStatus, logged |-> FALSE,
                 escaped |-> PostError]

NoSend ==
    [attempts |-> 0, status |-> NoStatus, logged |-> FALSE,
     escaped |-> NoError]

(***************************************************************************)
(* notify.__call__ and the wrapper it returns                              *)
(***************************************************************************)
Funcs == {"f", "g"}
Args == {"a1", "a2"}
\* classes derived from Exception, and those derived from BaseException only
ExceptionClasses == {"ValueError"}
BaseOnlyClasses == {"KeyboardInterrupt"}
Raisable ==
    {[cls |-> "ValueError", msg |-> "bad input"],
     [cls |-> "KeyboardInterrupt", msg |-> ""]}
Returned(v) == [kind |-> "return", val |-> v, exc |-> NoError]
Raised(e) == [kind |-> "raise", val |-> "None", exc |-> e]
\* what the wrapped function can do with its arguments
Outcomes == {Returned("42")} \cup {Raised(e) : e \in Raisable}

\* "except Exception" (line 91) takes the exception
Caught(o) == o.kind = "raise" /\ o.exc.cls \in ExceptionClasses

\* line 90: the arguments the wrapper hands to f
PassedArgs(a) == a

\* WrapperOutcome without the "return res" of line 100
WrapperOutcomeNoReturn(o, sent) ==
    IF sent.escaped # NoError THEN Raised(sent.escaped)
    ELSE IF o.kind = "return" THEN Returned("None") ELSE o

\* what the decorated call does once the wrapped function did o and _send
\* did sent: lines 94-95 and 98-100
WrapperOutcome(o, sent) ==
    IF sent.escaped # NoError THEN Raised(sent.escaped) ELSE o

\* the durations the wrapped function's own work can take, in microseconds
Durations == {1500000}

NoCall ==
    [done |-> FALSE, fn |-> NoName, args |-> "None", passed |-> "None",
     invocations |-> 0, depth |-> 0,
     fOutcome |-> Returned("None"), result |-> Returned("None"),
     ownStart |-> NoTime, ownEnd |-> NoTime,
     usedStart |-> NoTime, usedEnd |-> NoTime, errSeen |-> NoError,
     built |-> FALSE, msg |-> NoMessage, sent |-> NoSend]

\* StartStamp when the wrapper does not take the time at the call
StartStampStale(clock, old) == old

\* line 87: the value the wrapper stores in self.t_start
StartStamp(clock, old) == clock

\* notify.__call__: lines 82-83 and 102
Decorate(f) ==
    /\ phase = "ready"
    /\ func_name' = f
    /\ decorated' = decorated \cup {f}
    /\ UNCHANGED <<ctorVars, channel, mentions, token, error, t_start, t_end,
                   now, stack, last, durVars, th>>

\* wrapper, lines 86-90: the caller (the program, or a wrapped function
\* that is running) calls the decorated f with the arguments a
Call(f, a) ==
    /\ phase = "ready"
    /\ f \in decorated
    /\ Len(stack) < MaxDepth
    /\ t_start' = StartStamp(now, t_start)
    /\ stack' = Append(stack, [fn |-> f, args |-> a, passed |-> PassedArgs(a),
                               invocations |-> 1, ownStart |-> now])
    /\ UNCHANGED <<ctorVars, channel, mentions, token, error, t_end,
                   func_name, now, decorated, last, durVars, th>>

\* the wrapped function on top of the stack works for d microseconds
Work(d) ==
    /\ stack # <<>>
    /\ now + d <= MaxTime
    /\ now' = now + d
    /\ UNCHANGED <<ctorVars, selfVars, decorated, stack, last, durVars, th>>

\* wrapper, lines 90-100: the wrapped function on top of the stack returns
\* or raises (o), and the wrapper runs to its end
Finish(o, build, post) ==
    /\ stack # <<>>
    /\ LET fr == stack[Len(stack)]
           sent == IF o.kind = "raise" /\ ~Caught(o) THEN NoSend
                   ELSE Send(build, post)
           ran == o.kind = "return" \/ Caught(o)
       IN  /\ t_end' = IF ran THEN now ELSE t_end
           /\ error' = IF Caught(o) THEN o.exc ELSE error
           /\ last' =
                [done |-> TRUE, fn |-> fr.fn, args |-> fr.args,
                 passed |-> fr.passed, invocations |-> fr.invocations,
                 depth |-> Len(stack),
                 fOutcome |-> o, result |-> WrapperOutcome(o, sent),
                 ownStart |-> fr.ownStart, ownEnd |-> now,
                 usedStart |-> IF ran THEN t_start ELSE NoTime,
                 usedEnd |-> IF ran THEN t_end' ELSE NoTime,
                 errSeen |-> IF ran THEN error' ELSE NoError,
                 built |-> ran /\ build = "built",
                 msg |-> IF ran /\ build = "built"
                         THEN CreateMessage(channel, mentions, error',
                                            t_start, t_end', func_name)
                         ELSE NoMessage,
                 sent |-> sent]
    /\ stack' = SubSeq(stack, 1, Len(stack) - 1)
    /\ UNCHANGED <<ctorVars, channel, mentions, token, t_start, func_name,
                   now, decorated, durVars, th>>

DurIdle ==
    /\ elapsedA = Timedelta(0) /\ elapsedB = Timedelta(0)
    /\ shownA = <<>> /\ shownB = <<>> /\ durPc = "unused"

(***************************************************************************)
(* The wrapper run by several threads on one instance.  Each step is one   *)
(* access to a field of the shared instance; the interpreter may switch    *)
(* threads between any two of them.                                        *)
(***************************************************************************)
Threads == {"t1", "t2"}

IdleThread ==
    [pc |-> "idle", calls |-> 0, overlapped |-> FALSE, delivered |-> FALSE,
     fOutcome |-> Returned("None"), result |-> Returned("None"),
     ownStart |-> NoTime, ownEnd |-> NoTime,
     e127 |-> NoError, rdEnd |-> NoTime, rdStart |-> NoTime,
     e153 |-> NoError, msg |-> NoMessage]

ThIdle == th = [t \in Threads |-> IdleThread]

otherVars == <<ctorVars, decorated, stack, last, durVars>>

\* line 87; every call of another thread that is under way has now had
\* self.t_start overwritten
TCall(t) ==
    /\ th[t].pc = "idle"
    /\ th[t].calls < MaxCalls
    /\ t_start' = StartStamp(now, t_start)
    /\ th' = [u \in Threads |->
                IF u = t
                THEN [IdleThread EXCEPT !.pc = "running",
                                        !.calls = th[t].calls + 1,
                                        !.ownStart = now]
                ELSE IF th[u].pc # "idle"
                THEN [th[u] EXCEPT !.overlapped = TRUE]
                ELSE th[u]]
    /\ UNCHANGED <<otherVars, channel, mentions, token, error, t_end,
                   func_name, now>>

\* time passes while a wrapped function runs
TWork(d) ==
    /\ \E t \in Threads : th[t].pc = "running"
    /\ now + d <= MaxTime
    /\ now' = now + d
    /\ UNCHANGED <<otherVars, selfVars, th>>

\* lines 90-92 and 97: the wrapped function returns or raises (o); an
\* exception that "except Exception" does not take leaves the wrapper,
\* otherwise self.t_end is written
TFinish(t, o) ==
    /\ th[t].pc = "running"
    /\ IF o.kind = "raise" /\ ~Caught(o)
       THEN /\ th' = [th EXCEPT ![t].pc = "idle", ![t].fOutcome = o,
                                ![t].result = o, ![t].ownEnd = now]
            /\ UNCHANGED t_end
       ELSE /\ t_end' = now
            /\ th' = [th EXCEPT ![t].pc = IF Caught(o) THEN "setError"
                                          ELSE "read127",
                                ![t].fOutcome = o, ![t].ownEnd = now]
    /\ UNCHANGED <<otherVars, channel, mentions, token, error, t_start,
                   func_name, now>>

\* line 93
TSetError(t) ==
    /\ th[t].pc = "setError"
    /\ error' = th[t].fOutcome.exc
    /\ th' = [th EXCEPT ![t].pc = "read127"]
    /\ UNCHANGED <<otherVars, channel, mentions, token, t_start, t_end,
                   func_name, now>>

\* line 127: the status phrase is chosen from self.error
TRead127(t) ==
    /\ th[t].pc = "read127"
    /\ th' = [th EXCEPT ![t].pc = "readEnd", ![t].e127 = error]
    /\ UNCHANGED <<otherVars, selfVars, now>>

\* line 143: self.t_end is loaded, then self.t_start
TReadEnd(t) ==
    /\ th[t].pc = "readEnd"
    /\ th' = [th EXCEPT ![t].pc = "readStart", ![t].rdEnd = t_end]
    /\ UNCHANGED <<otherVars, selfVars, now>>

TReadStart(t) ==
    /\ th[t].pc = "readStart"
    /\ th' = [th EXCEPT ![t].pc = "read153", ![t].rdStart = t_start]
    /\ UNCHANGED <<otherVars, selfVars, now>>

\* line 153: error_msg is built from self.error, or left unbound
TRead153(t) ==
    /\ th[t].pc = "read153"
    /\ th' = [th EXCEPT ![t].pc = "read182", ![t].e153 = error]
    /\ UNCHANGED <<otherVars, selfVars, now>>

\* lines 182-209: the message is put together, or line 203 raises
\* UnboundLocalError, which leaves _send and the wrapper
UnboundError == [cls |-> "UnboundLocalError", msg |-> "error_msg"]
TRead182(t) ==
    /\ th[t].pc = "read182"
    /\ IF ErrorMsgUnbound(th[t].e153, error)
       THEN th' = [th EXCEPT ![t].pc = "idle",
                             ![t].result = Raised(UnboundError)]
       ELSE th' = [th EXCEPT ![t].pc = "post",
                             ![t].msg =
                                BuildMessage(channel, mentions, th[t].e127,
                                             func_name, th[t].rdStart,
                                             th[t].rdEnd, th[t].e153, error)]
    /\ UNCHANGED <<otherVars, selfVars, now>>

\* lines 110-119 and the end of the wrapper
TPost(t, p) ==
    /\ th[t].pc = "post"
    /\ th' = [th EXCEPT ![t].pc = "idle", ![t].delivered = TRUE,
                        ![t].result =
                            WrapperOutcome(th[t].fOutcome, Send("built", p))]
    /\ UNCHANGED <<otherVars, selfVars, now>>

\* the state after  n = notify(...); f = n(f)
InitThreads ==
    /\ ctorArgs \in ReadyInputs
    /\ phase = "ready" /\ ctorError = "None"
    /\ channel = ctorArgs.channel
    /\ mentions = NormalizeMentions(ctorArgs)
    /\ token = ctorArgs.token
    /\ error = NoError /\ t_start = NoTime /\ t_end = NoTime
    /\ func_name = "f"
    /\ now = 0 /\ decorated = {"f"} /\ stack = <<>> /\ last = NoCall
    /\ DurIdle /\ ThIdle

NextThreads ==
    \/ \E t \in Threads : TCall(t)
    \/ \E d \in Durations : TWork(d)
    \/ \E t \in Threads, o \in Outcomes : TFinish(t, o)
    \/ \E t \in Threads : TSetError(t)
    \/ \E t \in Threads : TRead127(t)
    \/ \E t \in Threads : TReadEnd(t)
    \/ \E t \in Threads : TReadStart(t)
    \/ \E t \in Threads : TRead153(t)
    \/ \E t \in Threads : TRead182(t)
    \/ \E t \in Threads, p \in PostOutcomes : TPost(t, p)

SpecThreads == InitThreads /\ [][NextThreads]_vars

(***************************************************************************)
(* The rendering of the elapsed time, on durations of every size.          *)
(***************************************************************************)
ElapsedInputs ==
    [days : {0, 1, 2},
     seconds : {0, 5, 59, 60, 3599, 3600, 86399},
     microseconds : {0, 1, 999, 1000, 500000, 999999}]

ShowDurations ==
    /\ durPc = "measured"
    /\ shownA' = TimeElapsedText(elapsedA)
    /\ shownB' = TimeElapsedText(elapsedB)
    /\ durPc' = "shown"
    /\ UNCHANGED <<ctorVars, selfVars, callVars, elapsedA, elapsedB, th>>

\* the state after notify(channel, mentions, token) returned an instance
Init ==
    /\ ctorArgs \in ReadyInputs
    /\ phase = "ready" /\ ctorError = "None"
    /\ channel = ctorArgs.channel
    /\ mentions = NormalizeMentions(ctorArgs)
    /\ token = ctorArgs.token
    /\ error = NoError /\ t_start = NoTime /\ t_end = NoTime
    /\ func_name = NoName
    /\ CallIdle /\ last = NoCall
    /\ DurIdle /\ ThIdle

Next ==
    \/ \E f \in Funcs : Decorate(f)
    \/ \E f \in Funcs, a \in Args : Call(f, a)
    \/ \E d \in Durations : Work(d)
    \/ \E o \in Outcomes, b \in BuildOutcomes, p \in PostOutcomes :
          Finish(o, b, p)

Spec == Init /\ [][Next]_vars

(***************************************************************************)
(* The constructor alone, on every input.                                  *)
(***************************************************************************)
InitCtor ==
    /\ ctorArgs \in CtorInputs
    /\ phase = "new" /\ ctorError = "None"
    /\ SelfUnset /\ CallIdle /\ last = NoCall
    /\ DurIdle /\ ThIdle

NextCtor ==
    \/ Construct
    \/ \E f \in Funcs : Decorate(f)

SpecCtor == InitCtor /\ [][NextCtor]_vars

InitDur ==
    /\ ctorArgs \in ReadyInputs
    /\ phase = "ready" /\ ctorError = "None"
    /\ channel = ctorArgs.channel
    /\ mentions = NormalizeMentions(ctorArgs)
    /\ token = ctorArgs.token
    /\ error = NoError /\ t_start = NoTime /\ t_end = NoTime
    /\ func_name = NoName
    /\ CallIdle /\ last = NoCall /\ ThIdle
    /\ elapsedA \in ElapsedInputs /\ elapsedB \in ElapsedInputs
    /\ shownA = <<>> /\ shownB = <<>> /\ durPc = "measured"

NextDur == ShowDurations

SpecDur == InitDur /\ [][NextDur]_vars

(***************************************************************************)
(* Properties.                                                             *)
(***************************************************************************)
SucceededPhrase == "Execution succeeded!"
FailedPhrase == "Execution failed!"
\* the parts of the summary text
PhraseOf(m) == m.text[3]
FuncNameOf(m) == m.text[5]

BlockKind(b) ==
    CASE b.type = "divider" -> "Divider"
      [] b.type = "context" -> "Footer"
      [] b.type = "section" /\ b.text[1] = "*Command*<bt><bt><bt>" -> "Command"
      [] b.type = "section" /\ b.text[1] = "*Time elapsed*\n" -> "Duration"
      [] b.type = "section" /\ b.text[1] = "*Error message*\n" -> "Error"
      [] OTHER -> "Unknown"
BlockKinds(m) == [i \in 1..Len(m.blocks) |-> BlockKind(m.blocks[i])]
ErrorBlocksOf(m) ==
    {i \in 1..Len(m.blocks) : BlockKind(m.blocks[i]) = "Error"}

\* C1: every finished call of a decorated function made exactly one
\* delivery attempt (one chat_postMessage), whatever the wrapped function
\* did.
C1_ExactlyOneAttempt ==
    last.done => last.sent.attempts = 1

\* C2: when the delivery step completed (status 0, or 1 and logged), the
\* decorated call has the outcome of the wrapped function: the same return
\* value or the same exception, the wrapped function having been invoked
\* once with the arguments of the caller.
C2_SameOutcomeAsWrapped ==
    (last.done /\ last.sent.status \in {0, 1}) =>
        /\ last.result = last.fOutcome
        /\ last.invocations = 1
        /\ last.passed = last.args
        /\ (last.sent.status = 1 => last.sent.logged)

\* a nested call whose wrapped function raised ValueError, whose delivery
\* failed with SlackApiError, raised that ValueError
C2_Witness ==
    /\ last.done /\ last.depth = 2 /\ last.args = "a2"
    /\ last.sent.status = 1 /\ last.sent.logged
    /\ last.fOutcome.kind = "raise"
    /\ last.result.exc.cls = "ValueError"

\* C3: a failed delivery step, whether the message could not be built or
\* the send raised anything, leaves the outcome of the wrapped function as
\* the outcome of the decorated call, and gives a logged status 1.
DeliveryFailed(c) == c.sent.escaped # NoError \/ c.sent.status = 1
C3_DeliveryFailureIsolated ==
    (last.done /\ DeliveryFailed(last)) =>
        /\ last.result = last.fOutcome
        /\ last.sent.status = 1 /\ last.sent.logged

\* C4: the constructor raises ValueError exactly when some mention is not
\* 'channel', 'here' or 'U' followed only by characters of [A-Z0-9], and
\* nothing is decorated after it raised.
ExactMention(s) ==
    \/ s = ChannelStr
    \/ s = HereStr
    \/ /\ Len(s) >= 2 /\ s[1] = "U"
       /\ \A i \in 2..Len(s) : s[i] \in UpperAlnum
C4_MentionsValidated ==
    phase # "new" =>
        /\ (ctorError # "ValueError") <=>
              (\A i \in 1..Len(NormalizeMentions(ctorArgs)) :
                  ExactMention(NormalizeMentions(ctorArgs)[i]))
        /\ (phase = "failed" => decorated = {})

\* C5: the message of a call shows the outcome of that call: succeeded and
\* no error section when the wrapped function returned, failed and exactly
\* one error section with the exception of this call when it raised.
C5_MessageShowsOwnOutcome ==
    (last.done /\ last.built) =>
        IF last.fOutcome.kind = "return"
        THEN /\ PhraseOf(last.msg) = SucceededPhrase
             /\ ErrorBlocksOf(last.msg) = {}
        ELSE /\ PhraseOf(last.msg) = FailedPhrase
             /\ Cardinality(ErrorBlocksOf(last.msg)) = 1
             /\ \A i \in ErrorBlocksOf(last.msg) :
                   last.msg.blocks[i] = ErrorBlock(last.fOutcome.exc)

\* C6: the sections of a built message depend only on whether the recorded
\* error is None: Command, Duration, Divider, Footer in green when it is,
\* Command, Duration, Error, Divider, Footer in red otherwise; the
\* destination is the configured channel.
C6_SectionsByRecordedError ==
    (last.done /\ last.built) =>
        /\ last.msg.channel = channel
        /\ IF last.errSeen = NoError
           THEN /\ BlockKinds(last.msg) =
                      <<"Command", "Duration", "Divider", "Footer">>
                /\ last.msg.color = Green
           ELSE /\ BlockKinds(last.msg) =
                      <<"Command", "Duration", "Error", "Divider", "Footer">>
                /\ last.msg.color = Red

\* a message was built while an error was recorded
C6_Witness ==
    /\ last.done /\ last.built /\ last.errSeen # NoError
    /\ Len(last.msg.blocks) = 5

\* C7: the Duration section shows the elapsed time with exactly the last
\* three digits of its six-digit fraction of a second dropped, also when
\* the fraction is zero.
SixDigitStr(td) ==
    IF td.microseconds = 0
    THEN TimedeltaStr(td) \o <<".", "0", "0", "0", "0", "0", "0">>
    ELSE TimedeltaStr(td)
MillisecondText(td) == SubSeq(SixDigitStr(td), 1, Len(SixDigitStr(td)) - 3)
C7_MillisecondTruncation ==
    durPc = "shown" =>
        /\ shownA = MillisecondText(elapsedA)
        /\ shownB = MillisecondText(elapsedB)

\* C8: with two threads on one instance, a message built from another
\* start time than the one of its own call comes from an interleaving: some
\* other thread entered the wrapper while this call was under way (and
\* C8_Witness shows that such an interleaving exists).
C8_MixOnlyByInterleaving ==
    \A t \in Threads :
        (th[t].delivered /\ th[t].rdStart # th[t].ownStart) =>
            th[t].overlapped

\* the first call of a thread returned normally, and the message delivered
\* for it says it failed, with the error of the call of the other thread,
\* and gives a duration counted from the start of that other call
C8_Witness ==
    \E t \in Threads :
        /\ th[t].delivered /\ th[t].calls = 1
        /\ th[t].fOutcome.kind = "return"
        /\ PhraseOf(th[t].msg) = FailedPhrase
        /\ ErrorBlocksOf(th[t].msg) # {}
        /\ th[t].rdStart # th[t].ownStart
        /\ th[t].rdEnd = th[t].ownEnd

\* C9: the summary text of the message of a call names the function that
\* was called.
C9_NamesCalledFunction ==
    (last.done /\ last.built) => FuncNameOf(last.msg) = last.fn

\* C10: on one thread, the elapsed time in the message of a call is the end
\* time of that call minus the start time of that call, nested calls
\* included.
C10_OwnElapsedTime ==
    (last.done /\ last.built) =>
        last.usedEnd - last.usedStart = last.ownEnd - last.ownStart

=============================================================================
